---- MODULE Spec2Model ----
(***************************************************************************)
(* Verification matrix of a bivariate polynomial (VSS commitments):        *)
(* secret-sharing/src/vss/matrix.rs.                                       *)
(*                                                                         *)
(* The group G is generic in the source.  It is instantiated here with the *)
(* cyclic group of prime order Q written additively: the element k * G is  *)
(* the residue k, the generator is 1 and the identity is 0.  Scalars are   *)
(* the field of residues modulo Q.  Source indices are 0-based, sequences  *)
(* here are 1-based: source cell m[i][j] is m[i + 1][j + 1].              *)
(***************************************************************************)
EXTENDS Integers, Sequences, FiniteSets, TLC

\* pc        where the run stands
\* bp1, bp2  the dealers' bivariate polynomials
\* vm1, vm2  the verification matrices held (the operands of + and +=)
\* sum       Some(vm1 + vm2) once + has run
\* acc       the accumulator of +=
\* folds     rounds of aggregation done after the first
\* wire      the bytes to_bytes returned
\* bytes     the bytes given to from_bytes
\* restored  what from_bytes returned
\* call      the method last called, with its arguments
\* ret       what it returned
\* bp3, vm3  a third dealer's polynomial and matrix
\* inacc     the dealers whose matrices the accumulator holds
\* insum     the dealers whose matrices the sum holds
VARIABLES pc, bp1, bp2, vm1, vm2, sum, acc, folds, wire, bytes, restored, call, ret,
          bp3, vm3, inacc, insum

vars == <<pc, bp1, bp2, vm1, vm2, sum, acc, folds, wire, bytes, restored, call, ret,
          bp3, vm3, inacc, insum>>

\* the variables of the aggregation of three dealers
foldvars == <<bp3, vm3, inacc, insum>>

(***************************************************************************)
(* Bounds of the model.                                                    *)
(***************************************************************************)
\* Largest degree (per axis) of the enumerated sparse polynomials.
MaxDeg == 1

(***************************************************************************)
(* The group and its scalar field (group::Group, ff::PrimeField).          *)
(***************************************************************************)
\* Order of the group the generic parameter G is instantiated with.
Q == 3

Scalars == 0 .. (Q - 1)

Identity == 0

Generator == 1

GAdd(a, b) == (a + b) % Q

GSub(a, b) == (a - b + Q) % Q

GNeg(a) == (Q - a) % Q

\* scalar multiplication e * s of a group element by a scalar
GMul(e, s) == (e * s) % Q

IsIdentity(e) == e = Identity

SAdd(a, b) == (a + b) % Q

SMul(a, b) == (a * b) % Q

\* Option<T>: None is the empty tuple, Some(v) the one-element tuple.
None == <<>>

Some(v) == <<v>>

Max(a, b) == IF a >= b THEN a ELSE b

(***************************************************************************)
(* crate::poly: powers, Polynomial, BivariatePolynomial.                   *)
(***************************************************************************)
\* powers(x, n) = [x^0, x^1, ..., x^n]
RECURSIVE powers(_, _)
powers(x, n) ==
    IF n = 0 THEN <<1 % Q>>
    ELSE LET prev == powers(x, n - 1)
         IN  Append(prev, SMul(prev[n], x))

\* A univariate polynomial is the sequence of its coefficients a_0 .. a_deg.
size(p) == Len(p)

\* Polynomial::coefficient(k): Some(a_k) for k < size, None otherwise.
coefficient(p, k) == IF k < Len(p) THEN Some(p[k + 1]) ELSE None

\* Polynomial::eval(x) = sum_k a_k x^k
RECURSIVE EvalFrom(_, _, _)
EvalFrom(p, x, k) ==
    IF k > Len(p) THEN 0
    ELSE SAdd(SMul(p[k], powers(x, k - 1)[k]), EvalFrom(p, x, k + 1))

eval(p, x) == EvalFrom(p, x, 1)

\* BivariatePolynomial::zero(deg_x, deg_y)
zero(dx, dy) ==
    [deg_x |-> dx, deg_y |-> dy,
     b |-> [i \in 1 .. (dx + 1) |-> [j \in 1 .. (dy + 1) |-> 0]]]

\* BivariatePolynomial::set_coefficient(i, j, c), for i <= deg_x, j <= deg_y
set_coefficient(bp, i, j, c) ==
    [bp EXCEPT !.b[i + 1][j + 1] = c]

\* BivariatePolynomial::with_coefficients(b), b a non-empty rectangular grid
with_coefficients(grid) ==
    [deg_x |-> Len(grid) - 1, deg_y |-> Len(grid[1]) - 1, b |-> grid]

\* sum_{k = from .. Len(s)} s[k] * w[k] in the field
RECURSIVE Dot(_, _, _)
Dot(s, w, k) ==
    IF k > Len(s) THEN 0
    ELSE SAdd(SMul(s[k], w[k]), Dot(s, w, k + 1))

\* BivariatePolynomial::eval_x(x): the polynomial in y with
\* a_j = sum_i b_{i,j} x^i
eval_x(bp, x) ==
    LET xpows == powers(x, bp.deg_x)
    IN  [j \in 1 .. (bp.deg_y + 1) |->
            Dot([i \in 1 .. (bp.deg_x + 1) |-> bp.b[i][j]], xpows, 1)]

\* BivariatePolynomial::eval_y(y): the polynomial in x with
\* a_i = sum_j b_{i,j} y^j
eval_y(bp, y) ==
    LET ypows == powers(y, bp.deg_y)
    IN  [i \in 1 .. (bp.deg_x + 1) |-> Dot(bp.b[i], ypows, 1)]

\* Coefficient b_{i,j} of a bivariate polynomial, zero beyond its degrees.
CoefOrZero(bp, i, j) ==
    IF i <= bp.deg_x /\ j <= bp.deg_y THEN bp.b[i + 1][j + 1] ELSE 0

\* B1 + B2: coefficient-wise sum after zero-padding to the larger degrees.
PolyAdd(p, q) ==
    LET dx == Max(p.deg_x, q.deg_x)
        dy == Max(p.deg_y, q.deg_y)
    IN  [deg_x |-> dx, deg_y |-> dy,
         b |-> [i \in 1 .. (dx + 1) |-> [j \in 1 .. (dy + 1) |->
                  SAdd(CoefOrZero(p, i - 1, j - 1), CoefOrZero(q, i - 1, j - 1))]]]

(***************************************************************************)
(* VerificationMatrix: accessors and construction.                         *)
(***************************************************************************)
\* dimensions(): (rows, cols) as stored in the structure
dimensions(vm) == <<vm.rows, vm.cols>>

\* element(i, j) = self.m.get(i).and_then(|bi| bi.get(j))
element(vm, i, j) ==
    IF i < Len(vm.m)
    THEN IF j < Len(vm.m[i + 1]) THEN Some(vm.m[i + 1][j + 1]) ELSE None
    ELSE None

\* is_zero_hole(): m[0][0] is the identity
is_zero_hole(vm) == IsIdentity(vm.m[1][1])

\* the inner loop of from: b_{i,j} * G pushed for every item of the row bi
FromRow(bi) == [j \in 1 .. Len(bi) |-> GMul(Generator, bi[j])]

\* the outer loop of from: one row pushed for every row of bp.b
FromRows(b) == [i \in 1 .. Len(b) |-> FromRow(b[i])]

\* A plausible slip: rows and cols taken from the wrong degree.
FromSwapped(bp) ==
    [rows |-> bp.deg_y + 1, cols |-> bp.deg_x + 1, m |-> FromRows(bp.b)]

\* impl From<&BivariatePolynomial> for VerificationMatrix
From(bp) ==
    [rows |-> bp.deg_x + 1, cols |-> bp.deg_y + 1, m |-> FromRows(bp.b)]

(***************************************************************************)
(* VerificationVector (super::VerificationVector).                         *)
(***************************************************************************)
\* is_from(polynomial): one entry per coefficient, coefficient_k * G == v[k]
is_from(vv, p) ==
    /\ Len(vv) = size(p)
    /\ \A k \in 1 .. Len(vv) : GMul(Generator, p[k]) = vv[k]

(***************************************************************************)
(* VerificationMatrix: point verification and vector extraction.           *)
(***************************************************************************)
\* inner loop of verify: diff += m[i][j] * (xpow * ypow) for every j
RECURSIVE VerifyRow(_, _, _, _, _)
VerifyRow(mi, xpow, ypows, j, diff) ==
    IF j > Len(ypows) THEN diff
    ELSE VerifyRow(mi, xpow, ypows, j + 1,
                   GAdd(diff, GMul(mi[j], SMul(xpow, ypows[j]))))

\* outer loop of verify over the powers of x
RECURSIVE VerifyRows(_, _, _, _, _)
VerifyRows(vm, xpows, ypows, i, diff) ==
    IF i > Len(xpows) THEN diff
    ELSE VerifyRows(vm, xpows, ypows, i + 1,
                    VerifyRow(vm.m[i], xpows[i], ypows, 1, diff))

\* A plausible slip: diff starts at G * v, the negation forgotten.
verify_unnegated(vm, x, y, v) ==
    IsIdentity(VerifyRows(vm, powers(x, vm.rows - 1), powers(y, vm.cols - 1), 1,
                          GMul(Generator, v)))

\* verify(x, y, v): diff = -G * v + sum_i sum_j m[i][j] * (x^i * y^j)
verify(vm, x, y, v) ==
    IsIdentity(VerifyRows(vm, powers(x, vm.rows - 1), powers(y, vm.cols - 1), 1,
                          GMul(GNeg(Generator), v)))

\* A plausible slip: the cell is added without the power of y.
RECURSIVE RowAccNoPow(_, _, _, _)
RowAccNoPow(mi, ypows, j, vi) ==
    IF j > Len(ypows) THEN vi
    ELSE RowAccNoPow(mi, ypows, j + 1, GAdd(vi, mi[j]))

\* vi += m[i][j] * ypow for every j
RECURSIVE RowAcc(_, _, _, _)
RowAcc(mi, ypows, j, vi) ==
    IF j > Len(ypows) THEN vi
    ELSE RowAcc(mi, ypows, j + 1, GAdd(vi, GMul(mi[j], ypows[j])))

\* vj += m[i][j] * xpow for every i
RECURSIVE ColAcc(_, _, _, _, _)
ColAcc(vm, j, xpows, i, vj) ==
    IF i > Len(xpows) THEN vj
    ELSE ColAcc(vm, j, xpows, i + 1, GAdd(vj, GMul(vm.m[i][j], xpows[i])))

\* verification_vector_for_x(y): one entry per row
verification_vector_for_x(vm, y) ==
    LET ypows == powers(y, vm.cols - 1)
    IN  [i \in 1 .. vm.rows |-> RowAcc(vm.m[i], ypows, 1, Identity)]

\* verification_vector_for_y(x): one entry per column
verification_vector_for_y(vm, x) ==
    LET xpows == powers(x, vm.rows - 1)
    IN  [j \in 1 .. vm.cols |-> ColAcc(vm, j, xpows, 1, Identity)]

(***************************************************************************)
(* VerificationMatrix: projected-polynomial verification.  The result      *)
(* carries, besides the returned boolean, the indices whose identity check *)
(* was executed and folded into the accumulator, in execution order.       *)
(***************************************************************************)
\* A plausible slip: the terms are added to diff (+= for -=).
RECURSIVE ColDiffPlus(_, _, _, _, _)
ColDiffPlus(vm, j, xpows, i, diff) ==
    IF i > Len(xpows) THEN diff
    ELSE ColDiffPlus(vm, j, xpows, i + 1, GAdd(diff, GMul(vm.m[i][j], xpows[i])))

\* diff -= m[i][j] * xpow for every i
RECURSIVE ColDiff(_, _, _, _, _)
ColDiff(vm, j, xpows, i, diff) ==
    IF i > Len(xpows) THEN diff
    ELSE ColDiff(vm, j, xpows, i + 1, GSub(diff, GMul(vm.m[i][j], xpows[i])))

\* diff -= m[i][j] * ypow for every j
RECURSIVE RowDiff(_, _, _, _)
RowDiff(mi, ypows, j, diff) ==
    IF j > Len(ypows) THEN diff
    ELSE RowDiff(mi, ypows, j + 1, GSub(diff, GMul(mi[j], ypows[j])))

\* A plausible slip: the loop returns false at the first column that fails.
RECURSIVE VerifyXLoopShort(_, _, _, _, _, _)
VerifyXLoopShort(vm, xpows, p, j, verified, checked) ==
    IF j >= vm.cols THEN [ret |-> verified, checked |-> checked]
    ELSE LET aj   == coefficient(p, j)[1]
             diff == ColDiff(vm, j + 1, xpows, 1, GMul(Generator, aj))
         IN  IF ~IsIdentity(diff)
             THEN [ret |-> FALSE, checked |-> Append(checked, j)]
             ELSE VerifyXLoopShort(vm, xpows, p, j + 1, verified, Append(checked, j))

\* loop of verify_x over the columns j = 0 .. cols - 1 (j is 0-based)
RECURSIVE VerifyXLoop(_, _, _, _, _, _)
VerifyXLoop(vm, xpows, p, j, verified, checked) ==
    IF j >= vm.cols THEN [ret |-> verified, checked |-> checked]
    ELSE LET aj   == coefficient(p, j)[1]
             diff == ColDiff(vm, j + 1, xpows, 1, GMul(Generator, aj))
         IN  VerifyXLoop(vm, xpows, p, j + 1,
                         verified /\ IsIdentity(diff), Append(checked, j))

verify_x(vm, x, p) ==
    IF size(p) # vm.cols THEN [ret |-> FALSE, checked |-> <<>>]
    ELSE VerifyXLoop(vm, powers(x, vm.rows - 1), p, 0, TRUE, <<>>)

\* loop of verify_y over the rows i = 0 .. rows - 1 (i is 0-based)
RECURSIVE VerifyYLoop(_, _, _, _, _, _)
VerifyYLoop(vm, ypows, p, i, verified, checked) ==
    IF i >= vm.rows THEN [ret |-> verified, checked |-> checked]
    ELSE LET ai   == coefficient(p, i)[1]
             diff == RowDiff(vm.m[i + 1], ypows, 1, GMul(Generator, ai))
         IN  VerifyYLoop(vm, ypows, p, i + 1,
                         verified /\ IsIdentity(diff), Append(checked, i))

verify_y(vm, y, p) ==
    IF size(p) # vm.rows THEN [ret |-> FALSE, checked |-> <<>>]
    ELSE VerifyYLoop(vm, powers(y, vm.cols - 1), p, 0, TRUE, <<>>)

(***************************************************************************)
(* VerificationMatrix: homomorphic addition.                               *)
(***************************************************************************)
\* A plausible slip: the (None, Some(b)) arm yields the identity.
AddCellDropRhs(a, b) ==
    IF a # None /\ b # None THEN GAdd(a[1], b[1])
    ELSE IF a # None THEN a[1]
    ELSE Identity

\* the match on (a, b) in add
AddCell(a, b) ==
    IF a # None /\ b # None THEN GAdd(a[1], b[1])
    ELSE IF a # None THEN a[1]
    ELSE IF b # None THEN b[1]
    ELSE Identity

\* A plausible slip: a row is as long as the longer of the operands' rows
\* at that index instead of cols.
AddRagged(self, rhs) ==
    LET rows == Max(self.rows, rhs.rows)
        cols == Max(self.cols, rhs.cols)
        len(vm, i) == IF i <= Len(vm.m) THEN Len(vm.m[i]) ELSE 0
    IN  [rows |-> rows, cols |-> cols,
         m |-> [i \in 1 .. rows |-> [j \in 1 .. Max(len(self, i), len(rhs, i)) |->
                  AddCell(element(self, i - 1, j - 1), element(rhs, i - 1, j - 1))]]]

\* A plausible slip: the result takes the left operand's dimensions, so the
\* right operand's cells beyond them are dropped.
AddLhsDims(self, rhs) ==
    [rows |-> self.rows, cols |-> self.cols,
     m |-> [i \in 1 .. self.rows |-> [j \in 1 .. self.cols |->
              AddCell(element(self, i - 1, j - 1), element(rhs, i - 1, j - 1))]]]

\* impl Add for &VerificationMatrix
Add(self, rhs) ==
    LET rows == Max(self.rows, rhs.rows)
        cols == Max(self.cols, rhs.cols)
    IN  [rows |-> rows, cols |-> cols,
         m |-> [i \in 1 .. rows |-> [j \in 1 .. cols |->
                  AddCell(element(self, i - 1, j - 1), element(rhs, i - 1, j - 1))]]]

\* A plausible slip: the fallback is taken only when the accumulator is
\* smaller on both axes (&& for ||), so mixed dimensions take the loop,
\* which here adds the operand's cells that the accumulator has.
AddAssignAnd(self, rhs) ==
    IF self.rows < rhs.rows /\ self.cols < rhs.cols
    THEN Add(self, rhs)
    ELSE [self EXCEPT !.m =
            [i \in 1 .. Len(self.m) |-> [j \in 1 .. Len(self.m[i]) |->
                IF i <= rhs.rows /\ j <= rhs.cols
                THEN GAdd(self.m[i][j], rhs.m[i][j])
                ELSE self.m[i][j]]]]

\* impl AddAssign<&VerificationMatrix> for VerificationMatrix: the value of
\* the accumulator after `self += rhs`
AddAssign(self, rhs) ==
    IF self.rows < rhs.rows \/ self.cols < rhs.cols
    THEN Add(self, rhs)
    ELSE [self EXCEPT !.m =
            [i \in 1 .. Len(self.m) |-> [j \in 1 .. Len(self.m[i]) |->
                IF i <= rhs.rows /\ j <= rhs.cols
                THEN GAdd(self.m[i][j], rhs.m[i][j])
                ELSE self.m[i][j]]]]

(***************************************************************************)
(* The group's canonical fixed-size encoding (group::GroupEncoding): the   *)
(* element k * G is the big-endian number k on element_byte_size bytes; a  *)
(* chunk whose number is not below the group order decodes to nothing.     *)
(***************************************************************************)
\* u8: a byte holds 0 .. ByteMod - 1, `as u8` reduces modulo ByteMod
ByteMod == 256

\* element_byte_size() = G::Repr::default().as_ref().len()
element_byte_size == 2

RECURSIVE EncodeN(_, _)
EncodeN(k, n) ==
    IF n = 0 THEN <<>>
    ELSE Append(EncodeN(k \div ByteMod, n - 1), k % ByteMod)

\* GroupEncoding::to_bytes
Encode(e) == EncodeN(e, element_byte_size)

RECURSIVE NumberOf(_, _)
NumberOf(chunk, n) ==
    IF n = 0 THEN 0
    ELSE NumberOf(chunk, n - 1) * ByteMod + chunk[n]

\* GroupEncoding::from_bytes on a chunk of element_byte_size bytes
Decode(chunk) ==
    LET k == NumberOf(chunk, Len(chunk))
    IN  IF k < Q THEN Some(k) ELSE None

(***************************************************************************)
(* VerificationMatrix: serialization.                                      *)
(***************************************************************************)
\* byte_size(rows, cols)
byte_size(rows, cols) == 2 + rows * cols * element_byte_size

\* ss[lo] \o ... \o ss[hi]: what extending a vector by each item of ss in
\* turn appends (computed by halves, to keep the evaluation shallow)
RECURSIVE Flatten(_, _, _)
Flatten(ss, lo, hi) ==
    IF lo > hi THEN <<>>
    ELSE IF lo = hi THEN ss[lo]
    ELSE LET mid == (lo + hi) \div 2
         IN  Flatten(ss, lo, mid) \o Flatten(ss, mid + 1, hi)

\* the inner loop of to_bytes: the encodings of one row, in order
RowBytes(mi) == Flatten([j \in 1 .. Len(mi) |-> Encode(mi[j])], 1, Len(mi))

\* the outer loop of to_bytes: the rows, in order
MatrixBytes(m) == Flatten([i \in 1 .. Len(m) |-> RowBytes(m[i])], 1, Len(m))

\* A plausible slip: the header holds rows and cols instead of the degrees.
to_bytes_sizes(vm) ==
    LET deg_x == vm.rows % ByteMod
        deg_y == vm.cols % ByteMod
    IN  <<deg_x, deg_y>> \o MatrixBytes(vm.m)

\* to_bytes()
to_bytes(vm) ==
    LET deg_x == (vm.rows - 1) % ByteMod
        deg_y == (vm.cols - 1) % ByteMod
    IN  <<deg_x, deg_y>> \o MatrixBytes(vm.m)

\* slice.chunks(n): consecutive pieces of n items, the last one maybe shorter
Chunks(s, n) ==
    [k \in 1 .. ((Len(s) + n - 1) \div n) |->
        SubSeq(s, (k - 1) * n + 1, IF k * n < Len(s) THEN k * n ELSE Len(s))]

\* the first index of a sequence of loop outcomes that is not "ok", or 0
FirstNotOk(sts) ==
    IF \A k \in 1 .. Len(sts) : sts[k] = "ok" THEN 0
    ELSE CHOOSE k \in 1 .. Len(sts) :
            /\ sts[k] # "ok"
            /\ \A h \in 1 .. (k - 1) : sts[h] = "ok"

\* one pass of the inner loop of from_bytes: copy_from_slice panics on a
\* chunk that is not element_byte_size long, a chunk the group does not
\* decode makes from_bytes return None
ChunkOutcome(chunk) ==
    IF Len(chunk) # element_byte_size THEN "panic"
    ELSE IF Decode(chunk) = None THEN "none"
    ELSE "ok"

\* the inner loop of from_bytes over the element chunks of one row: it
\* leaves at the first chunk whose outcome is not "ok"
FromBytesRow(chunks) ==
    LET sts == [k \in 1 .. Len(chunks) |-> ChunkOutcome(chunks[k])]
        bad == FirstNotOk(sts)
    IN  IF bad # 0 THEN [st |-> sts[bad], mi |-> <<>>]
        ELSE [st |-> "ok", mi |-> [k \in 1 .. Len(chunks) |-> Decode(chunks[k])[1]]]

\* the outer loop of from_bytes over the row chunks: it leaves at the first
\* row whose inner loop left early
FromBytesRows(rowchunks) ==
    LET rs  == [i \in 1 .. Len(rowchunks) |->
                   FromBytesRow(Chunks(rowchunks[i], element_byte_size))]
        bad == FirstNotOk([i \in 1 .. Len(rowchunks) |-> rs[i].st])
    IN  IF bad # 0 THEN [st |-> rs[bad].st, m |-> <<>>]
        ELSE [st |-> "ok", m |-> [i \in 1 .. Len(rowchunks) |-> rs[i].mi]]

\* the part of from_bytes after the length checks
FromBytesBody(bs, rows, cols) ==
    LET r == FromBytesRows(Chunks(SubSeq(bs, 3, Len(bs)), element_byte_size * cols))
    IN  IF r.st = "panic" THEN [panic |-> TRUE, val |-> None]
        ELSE IF r.st = "none" THEN [panic |-> FALSE, val |-> None]
        ELSE [panic |-> FALSE, val |-> Some([rows |-> rows, cols |-> cols, m |-> r.m])]

\* A plausible slip: the comparison with the expected length is left out.
from_bytes_unchecked(bs) ==
    IF Len(bs) < 2 THEN [panic |-> FALSE, val |-> None]
    ELSE FromBytesBody(bs, bs[1] + 1, bs[2] + 1)

\* A plausible slip: the two header bytes are read in the wrong order.
from_bytes_swapped(bs) ==
    IF Len(bs) < 2 THEN [panic |-> FALSE, val |-> None]
    ELSE LET rows == bs[2] + 1
             cols == bs[1] + 1
         IN  IF Len(bs) # byte_size(rows, cols)
             THEN [panic |-> FALSE, val |-> None]
             ELSE FromBytesBody(bs, rows, cols)

\* from_bytes(bytes): val is the returned Option, panic tells a panic
from_bytes(bs) ==
    IF Len(bs) < 2 THEN [panic |-> FALSE, val |-> None]
    ELSE LET rows == bs[1] + 1
             cols == bs[2] + 1
         IN  IF Len(bs) # byte_size(rows, cols)
             THEN [panic |-> FALSE, val |-> None]
             ELSE FromBytesBody(bs, rows, cols)

(***************************************************************************)
(* Inputs.                                                                 *)
(***************************************************************************)
\* tests::scalars: an integer as a field element
scalars(ws) == [k \in 1 .. Len(ws) |-> ws[k] % Q]

\* zero(deg_x, deg_y) with at most one coefficient set, as in tests::test_from
SparsePolys ==
    UNION {{zero(dx, dy)} \cup
           {set_coefficient(zero(dx, dy), i, j, c) :
                <<i, j, c>> \in (0 .. dx) \X (0 .. dy) \X (Scalars \ {0})} :
           <<dx, dy>> \in (0 .. MaxDeg) \X (0 .. MaxDeg)}

\* the coefficient grids of tests::test_add
TestPolys ==
    {with_coefficients(<<scalars(<<0, 1, 2>>), scalars(<<3, 4, 5>>)>>),
     with_coefficients(<<scalars(<<1, 3, 5>>), scalars(<<0, 2, 4>>)>>),
     with_coefficients(<<scalars(<<0, 1>>), scalars(<<3, 4>>)>>),
     with_coefficients(<<scalars(<<1, 3>>), scalars(<<0, 2>>)>>),
     with_coefficients(<<scalars(<<1, 2, 3, 4>>), scalars(<<5, 6, 7, 8>>)>>),
     with_coefficients(<<scalars(<<1, 2>>), scalars(<<3, 4>>), scalars(<<5, 6>>)>>)}

Polys == SparsePolys \cup TestPolys

\* polynomials of the largest degree whose header byte does not wrap (255)
EdgePolys ==
    {set_coefficient(zero(ByteMod - 1, 0), ByteMod - 1, 0, 1),
     set_coefficient(zero(0, ByteMod - 1), 0, ByteMod - 1, 2)}

\* polynomials one degree beyond it (deg_x and deg_y are usize), given by
\* their coefficient grids: 257 x 1 and 1 x 257
TallPolys ==
    {with_coefficients([i \in 1 .. (ByteMod + 1) |-> <<IF i = ByteMod + 1 THEN 1 ELSE 0>>]),
     with_coefficients(<<[j \in 1 .. (ByteMod + 1) |-> IF j = 2 THEN 2 ELSE 0]>>)}

\* byte values an adversary writes: the digits below the group order, one
\* above it, and the largest byte
ByteVals == (0 .. Q) \cup {ByteMod - 1}

\* Longest byte string received that was not produced by to_bytes.
MaxRawLen == 4

RECURSIVE SeqsOfLen(_, _)
SeqsOfLen(S, n) ==
    IF n = 0 THEN {<<>>}
    ELSE {Append(s, v) : s \in SeqsOfLen(S, n - 1), v \in S}

RawBytes == UNION {SeqsOfLen(ByteVals, n) : n \in 0 .. MaxRawLen}

\* Largest size of the enumerated univariate polynomials.
MaxSize == 3

UniPolys == UNION {SeqsOfLen(Scalars, n) : n \in 1 .. MaxSize}

\* values of the variables an operation has not set
NoCall == [op |-> "none"]

NoBytes == <<>>

NotDecoded == [panic |-> FALSE, val |-> None]

(***************************************************************************)
(* Aggregation: two dealers' polynomials, their matrices, the sum by + and *)
(* the accumulator of +=, as in tests::test_add.  After a round the        *)
(* accumulator can take part in one more round with a further dealer.      *)
(***************************************************************************)
\* Rounds of aggregation after the first.
MaxFolds == 1

InitAdd ==
    /\ pc = "built"
    /\ bp1 \in Polys
    /\ bp2 \in Polys
    /\ vm1 = From(bp1)
    /\ vm2 = From(bp2)
    /\ sum = None
    /\ acc = vm1
    /\ wire = NoBytes /\ bytes = NoBytes /\ restored = NotDecoded
    /\ call = NoCall /\ ret = 0 /\ folds = 0
    /\ bp3 = zero(0, 0) /\ vm3 = From(bp3) /\ inacc = {} /\ insum = {}

\* let sum = &vm1 + &vm2
DoAdd ==
    /\ pc = "built"
    /\ sum' = Some(Add(vm1, vm2))
    /\ pc' = "added"
    /\ UNCHANGED <<bp1, bp2, vm1, vm2, acc, wire, bytes, restored, call, ret, folds, foldvars>>

\* let mut sum = vm1.clone(); sum += &vm2
DoAddAssign ==
    /\ pc \in {"built", "added"}
    /\ acc' = AddAssign(acc, vm2)
    /\ pc' = "assigned"
    /\ UNCHANGED <<bp1, bp2, vm1, vm2, sum, wire, bytes, restored, call, ret, folds, foldvars>>

\* the aggregate becomes the left operand of a round with a further dealer
Fold(bp) ==
    /\ pc = "assigned"
    /\ folds < MaxFolds
    /\ bp1' = PolyAdd(bp1, bp2)
    /\ bp2' = bp
    /\ vm1' = acc
    /\ vm2' = From(bp)
    /\ sum' = None
    /\ pc' = "built"
    /\ folds' = folds + 1
    /\ UNCHANGED <<acc, wire, bytes, restored, call, ret, foldvars>>

NextAdd ==
    \/ DoAdd
    \/ DoAddAssign
    \/ \E bp \in TestPolys : Fold(bp)

SpecAdd == InitAdd /\ [][NextAdd]_vars

(***************************************************************************)
(* Properties of construction and addition, checked under SpecAdd.         *)
(***************************************************************************)
\* the matrix vm is the commitment to bp, stated through the accessors:
\* dimensions (deg_x + 1, deg_y + 1), b_{i,j} * G inside, nothing outside
CommitsTo(vm, bp) ==
    /\ dimensions(vm) = <<bp.deg_x + 1, bp.deg_y + 1>>
    /\ \A i \in 0 .. (bp.deg_x + 1), j \in 0 .. (bp.deg_y + 1) :
          element(vm, i, j) =
             IF i <= bp.deg_x /\ j <= bp.deg_y
             THEN Some(GMul(Generator, bp.b[i + 1][j + 1]))
             ELSE None

\* C10: from(B) has dimensions (deg_x + 1, deg_y + 1), element(i, j) is
\* Some(b_{i,j} * G) for i <= deg_x and j <= deg_y (the identity for a zero
\* coefficient) and None for an index outside that range.
C10_Construction ==
    /\ CommitsTo(vm2, bp2)
    /\ folds = 0 => CommitsTo(vm1, bp1)

\* C10 witness: a 2 x 4 matrix built from a test grid, with a non-identity
\* cell, an identity cell and an absent cell.
C10_Witness ==
    /\ pc = "built"
    /\ dimensions(vm2) = <<2, 4>>
    /\ element(vm2, 1, 3) = Some(GMul(Generator, 2))
    /\ element(vm2, 1, 1) = Some(Identity)
    /\ element(vm2, 2, 0) = None

\* cell (i, j) of a matrix, the identity where the matrix has no such cell
CellOrIdentity(vm, i, j) ==
    IF i < vm.rows /\ j < vm.cols THEN vm.m[i + 1][j + 1] ELSE Identity

\* C4: from(B1) + from(B2) = from(B1 + B2) for polynomials of any degrees;
\* the sum has max(rows), max(cols) and cell (i, j) is A[i][j] + B[i][j],
\* an absent cell counting as the identity.
C4_Homomorphism ==
    /\ vm1 = From(bp1)
    /\ vm2 = From(bp2)
    /\ pc = "added" =>
          /\ sum = Some(From(PolyAdd(bp1, bp2)))
          /\ sum[1].rows = Max(vm1.rows, vm2.rows)
          /\ sum[1].cols = Max(vm1.cols, vm2.cols)
          /\ Len(sum[1].m) = sum[1].rows
          /\ \A i \in 0 .. (sum[1].rows - 1) :
                /\ Len(sum[1].m[i + 1]) = sum[1].cols
                /\ \A j \in 0 .. (sum[1].cols - 1) :
                      sum[1].m[i + 1][j + 1] =
                         GAdd(CellOrIdentity(vm1, i, j), CellOrIdentity(vm2, i, j))

\* C4 witness: a sum of matrices of mixed dimensions (the left has more
\* columns, the right more rows) with cells present in one operand only.
C4_Witness ==
    /\ pc = "added"
    /\ vm1.rows < vm2.rows
    /\ vm1.cols > vm2.cols
    /\ vm2.m[vm2.rows][1] # Identity
    /\ vm1.m[1][vm1.cols] # Identity
    /\ vm1.m[1][1] # Identity /\ vm2.m[1][1] # Identity

\* C5: after A += B the accumulator equals A + B, on the fast path and on
\* the fallback path.
C5_AddAssignIsAdd ==
    pc = "assigned" => acc = Add(vm1, vm2)

\* C5 witness: the fast path, taken with a strictly larger accumulator that
\* the operand changes.
C5_Witness ==
    /\ pc = "assigned"
    /\ vm1.rows > vm2.rows
    /\ vm1.cols > vm2.cols
    /\ acc # vm1

\* the fallback path on mixed dimensions is reached as well
C5_FallbackReached ==
    /\ pc = "assigned"
    /\ vm1.rows > vm2.rows
    /\ vm1.cols < vm2.cols
    /\ acc # vm1

(***************************************************************************)
(* Serialization: a dealer builds a matrix (possibly summed with another   *)
(* one), publishes to_bytes of it, the bytes may be altered on the way, and *)
(* a receiver runs from_bytes on what arrives.  A listener receives bytes  *)
(* that no to_bytes produced.  Sums are formed for the polynomials of      *)
(* Polys; the polynomials of degree 255 and 256 are encoded as built.      *)
(***************************************************************************)
\* Bytes from the start of the encoding that are altered, bytes from its end
\* that are lost.
MaxPos == 18

Positions(bs) == 1 .. (IF Len(bs) < MaxPos THEN Len(bs) ELSE MaxPos)

InitSer ==
    /\ \/ pc = "start" /\ bp1 \in Polys \cup EdgePolys \cup TallPolys
       \/ pc = "listen" /\ bp1 = zero(0, 0)
    /\ bp2 = zero(0, 0)
    /\ vm1 = From(bp1)
    /\ vm2 = From(bp2)
    /\ sum = None
    /\ acc = vm1
    /\ wire = NoBytes /\ bytes = NoBytes /\ restored = NotDecoded
    /\ call = NoCall /\ ret = 0 /\ folds = 0
    /\ bp3 = zero(0, 0) /\ vm3 = From(bp3) /\ inacc = {} /\ insum = {}

\* vm1 = &vm1 + &vm2 with a further dealer's matrix
CombineAdd(bp) ==
    /\ pc = "start"
    /\ bp1 \in Polys
    /\ bp2' = bp
    /\ vm2' = From(bp)
    /\ vm1' = Add(vm1, From(bp))
    /\ pc' = "summed"
    /\ UNCHANGED <<bp1, sum, acc, wire, bytes, restored, call, ret, folds, foldvars>>

\* vm1 += &vm2 with a further dealer's matrix
CombineAddAssign(bp) ==
    /\ pc = "start"
    /\ bp1 \in Polys
    /\ bp2' = bp
    /\ vm2' = From(bp)
    /\ vm1' = AddAssign(vm1, From(bp))
    /\ pc' = "summed"
    /\ UNCHANGED <<bp1, sum, acc, wire, bytes, restored, call, ret, folds, foldvars>>

ToBytes ==
    /\ pc \in {"start", "summed"}
    /\ wire' = to_bytes(vm1)
    /\ bytes' = wire'
    /\ call' = [op |-> "to_bytes"]
    /\ pc' = "encoded"
    /\ UNCHANGED <<bp1, bp2, vm1, vm2, sum, acc, restored, ret, folds, foldvars>>

\* the last n bytes are lost
Truncate(n) ==
    /\ pc = "encoded"
    /\ bytes' = SubSeq(bytes, 1, Len(bytes) - n)
    /\ call' = [op |-> "truncate"]
    /\ pc' = "altered"
    /\ UNCHANGED <<bp1, bp2, vm1, vm2, sum, acc, wire, restored, ret, folds, foldvars>>

\* a trailing byte is appended
Extend(b) ==
    /\ pc = "encoded"
    /\ bytes' = Append(bytes, b)
    /\ call' = [op |-> "extend"]
    /\ pc' = "altered"
    /\ UNCHANGED <<bp1, bp2, vm1, vm2, sum, acc, wire, restored, ret, folds, foldvars>>

\* the byte at position k (1-based) is replaced by another value
Corrupt(k, b) ==
    /\ pc = "encoded"
    /\ bytes[k] # b
    /\ bytes' = [bytes EXCEPT ![k] = b]
    /\ call' = [op |-> "corrupt"]
    /\ pc' = "altered"
    /\ UNCHANGED <<bp1, bp2, vm1, vm2, sum, acc, wire, restored, ret, folds, foldvars>>

\* bytes of unknown origin arrive
Receive(raw) ==
    /\ pc = "listen"
    /\ bytes' = raw
    /\ call' = [op |-> "receive"]
    /\ pc' = "altered"
    /\ UNCHANGED <<bp1, bp2, vm1, vm2, sum, acc, wire, restored, ret, folds, foldvars>>

FromBytes ==
    /\ pc \in {"encoded", "altered"}
    /\ restored' = from_bytes(bytes)
    /\ pc' = "decoded"
    /\ UNCHANGED <<bp1, bp2, vm1, vm2, sum, acc, wire, bytes, call, ret, folds, foldvars>>

\* the receiver folds the decoded matrix into its accumulator: acc += &restored
AccumulateRestored ==
    /\ pc = "decoded"
    /\ restored.val # None
    /\ acc' = AddAssign(acc, restored.val[1])
    /\ pc' = "accumulated"
    /\ UNCHANGED <<bp1, bp2, vm1, vm2, sum, wire, bytes, restored, call, ret, folds, foldvars>>

\* and adds the accumulator to a further dealer's matrix: sum = &vm2 + &acc
AddAccumulated(bp) ==
    /\ pc = "accumulated"
    /\ bp2' = bp
    /\ vm2' = From(bp)
    /\ sum' = Some(Add(From(bp), acc))
    /\ pc' = "aggregated"
    /\ UNCHANGED <<bp1, vm1, acc, wire, bytes, restored, call, ret, folds, foldvars>>

NextSer ==
    \/ \E bp \in TestPolys : CombineAdd(bp)
    \/ \E bp \in TestPolys : CombineAddAssign(bp)
    \/ ToBytes
    \/ \E n \in Positions(bytes) : Truncate(n)
    \/ \E b \in ByteVals : Extend(b)
    \/ \E k \in Positions(bytes), b \in ByteVals : Corrupt(k, b)
    \/ \E raw \in RawBytes : Receive(raw)
    \/ FromBytes
    \/ AccumulateRestored
    \/ \E bp \in TestPolys : AddAccumulated(bp)

SpecSer == InitSer /\ [][NextSer]_vars

(***************************************************************************)
(* Properties of serialization, checked under SpecSer.                     *)
(***************************************************************************)
\* C1 as stated: from_bytes(to_bytes(M)) returns Some(M) for every matrix
\* built from any bivariate polynomial or obtained by additions.
C1_RoundTripAnyMatrix ==
    (pc = "decoded" /\ call.op = "to_bytes") =>
        restored = [panic |-> FALSE, val |-> Some(vm1)]

\* C1 amended: from_bytes(to_bytes(M)) returns Some(M) for every such matrix
\* with at most 256 rows and at most 256 columns (degrees that fit the
\* one-byte header).
C1_RoundTrip ==
    (pc = "decoded" /\ call.op = "to_bytes"
        /\ vm1.rows <= ByteMod /\ vm1.cols <= ByteMod) =>
        restored = [panic |-> FALSE, val |-> Some(vm1)]

\* C1 witness: the encoding of a sum of two matrices of different
\* dimensions, with non-identity cells, has been decoded back to the sum.
C1_Witness ==
    /\ pc = "decoded" /\ call.op = "to_bytes"
    /\ vm1.rows = 3 /\ vm1.cols = 2 /\ From(bp1).rows = 1
    /\ vm1.m[3][1] # Identity /\ vm1.m[1][2] # Identity
    /\ restored.val = Some(vm1)

\* the round trip at the largest supported degree (255) is reached as well
C1_EdgeReached ==
    /\ pc = "decoded" /\ call.op = "to_bytes"
    /\ vm1.rows = ByteMod
    /\ restored.val = Some(vm1)

\* the k-th fixed-size element chunk after the two header bytes
ElementChunk(bs, k) ==
    SubSeq(bs, 3 + (k - 1) * element_byte_size, 2 + k * element_byte_size)

\* the byte strings C2 calls malformed
Malformed(bs) ==
    \/ Len(bs) < 2
    \/ /\ Len(bs) >= 2
       /\ \/ Len(bs) # byte_size(bs[1] + 1, bs[2] + 1)
          \/ \E k \in 1 .. ((Len(bs) - 2) \div element_byte_size) :
                Decode(ElementChunk(bs, k)) = None

\* a matrix returned by from_bytes is complete: the dimensions of the
\* header, that many rows, that many elements in each row
Complete(vm, bs) ==
    /\ vm.rows = bs[1] + 1 /\ vm.cols = bs[2] + 1
    /\ Len(vm.m) = vm.rows
    /\ \A i \in 1 .. Len(vm.m) : Len(vm.m[i]) = vm.cols

\* C2: from_bytes never panics and returns None on every byte string that is
\* shorter than 2, or whose length is not byte_size(b[0] + 1, b[1] + 1), or
\* one of whose element chunks the group does not decode; so on every
\* truncation of, and every byte appended to, an encoding it accepts; and
\* what it returns otherwise is never a partial matrix.
C2_MalformedRejected ==
    pc = "decoded" =>
        /\ ~restored.panic
        /\ Malformed(bytes) => restored.val = None
        /\ (call.op \in {"truncate", "extend"} /\ from_bytes(wire).val # None)
              => restored.val = None
        /\ restored.val # None => Complete(restored.val[1], bytes)

\* C2 witness: an encoding of the right length in which one byte was
\* replaced so that an element chunk does not decode has been rejected.
C2_Witness ==
    /\ pc = "decoded" /\ call.op = "corrupt"
    /\ Len(bytes) = byte_size(bytes[1] + 1, bytes[2] + 1)
    /\ Len(bytes) > 4
    /\ restored.val = None

\* a truncated valid encoding has been decoded as well
C2_TruncationReached ==
    /\ pc = "decoded" /\ call.op = "truncate"
    /\ from_bytes(wire).val # None
    /\ Len(bytes) >= 2
    /\ restored.val = None

\* C3: whenever from_bytes(b) returns Some(M), to_bytes(M) = b; hence a byte
\* string other than the encoding of a matrix never decodes to that matrix.
C3_CanonicalEncoding ==
    (pc = "decoded" /\ restored.val # None) =>
        /\ to_bytes(restored.val[1]) = bytes
        /\ (restored.val = Some(vm1) /\ wire # NoBytes) => bytes = wire

\* C3 witness: an encoding in which one byte was replaced has decoded, to a
\* matrix other than the encoded one.
C3_Witness ==
    /\ pc = "decoded" /\ call.op = "corrupt"
    /\ restored.val # None
    /\ restored.val # Some(vm1)
    /\ vm1.rows # vm1.cols

\* received bytes that no to_bytes produced have decoded as well
C3_ReceivedReached ==
    /\ pc = "decoded" /\ call.op = "receive"
    /\ restored.val # None
    /\ restored.val[1].m[1][1] # Identity

(***************************************************************************)
(* Verification: a shareholder holds the matrix of a dealer's polynomial   *)
(* and calls one of the verification or extraction methods on it.          *)
(***************************************************************************)
InitVerify ==
    /\ pc = "idle"
    /\ bp1 \in Polys
    /\ bp2 = zero(0, 0)
    /\ vm1 = From(bp1)
    /\ vm2 = From(bp2)
    /\ sum = None
    /\ acc = vm1
    /\ wire = NoBytes /\ bytes = NoBytes /\ restored = NotDecoded
    /\ call = NoCall /\ ret = 0 /\ folds = 0
    /\ bp3 = zero(0, 0) /\ vm3 = From(bp3) /\ inacc = {} /\ insum = {}

Verify(x, y, v) ==
    /\ pc = "idle"
    /\ call' = [op |-> "verify", x |-> x, y |-> y, v |-> v]
    /\ ret' = verify(vm1, x, y, v)
    /\ pc' = "returned"
    /\ UNCHANGED <<bp1, bp2, vm1, vm2, sum, acc, wire, bytes, restored, folds, foldvars>>

VerifyX(x, p) ==
    /\ pc = "idle"
    /\ call' = [op |-> "verify_x", x |-> x, p |-> p]
    /\ ret' = verify_x(vm1, x, p)
    /\ pc' = "returned"
    /\ UNCHANGED <<bp1, bp2, vm1, vm2, sum, acc, wire, bytes, restored, folds, foldvars>>

VerifyY(y, p) ==
    /\ pc = "idle"
    /\ call' = [op |-> "verify_y", y |-> y, p |-> p]
    /\ ret' = verify_y(vm1, y, p)
    /\ pc' = "returned"
    /\ UNCHANGED <<bp1, bp2, vm1, vm2, sum, acc, wire, bytes, restored, folds, foldvars>>

VectorForX(y) ==
    /\ pc = "idle"
    /\ call' = [op |-> "verification_vector_for_x", y |-> y]
    /\ ret' = verification_vector_for_x(vm1, y)
    /\ pc' = "returned"
    /\ UNCHANGED <<bp1, bp2, vm1, vm2, sum, acc, wire, bytes, restored, folds, foldvars>>

VectorForY(x) ==
    /\ pc = "idle"
    /\ call' = [op |-> "verification_vector_for_y", x |-> x]
    /\ ret' = verification_vector_for_y(vm1, x)
    /\ pc' = "returned"
    /\ UNCHANGED <<bp1, bp2, vm1, vm2, sum, acc, wire, bytes, restored, folds, foldvars>>

\* the polynomials a shareholder is sent for the coordinate x: the two
\* projections of the dealer's polynomial, or any small polynomial
Slices(x) == {eval_x(bp1, x), eval_y(bp1, x)} \cup UniPolys

NextVerify ==
    \/ \E x \in Scalars, y \in Scalars, v \in Scalars : Verify(x, y, v)
    \/ \E x \in Scalars : \E p \in Slices(x) : VerifyX(x, p)
    \/ \E y \in Scalars : \E p \in Slices(y) : VerifyY(y, p)
    \/ \E y \in Scalars : VectorForX(y)
    \/ \E x \in Scalars : VectorForY(x)

SpecVerify == InitVerify /\ [][NextVerify]_vars

(***************************************************************************)
(* Properties of verification, checked under SpecVerify.  The sums of the  *)
(* claims are written as sums, apart from the loops that compute them.     *)
(***************************************************************************)
\* x^n in the field
RECURSIVE Pow(_, _)
Pow(x, n) == IF n = 0 THEN 1 % Q ELSE SMul(x, Pow(x, n - 1))

\* f[1] + ... + f[n] in the group
RECURSIVE GSum(_, _)
GSum(f, n) == IF n = 0 THEN Identity ELSE GAdd(GSum(f, n - 1), f[n])

\* sum over i of x^i * m[i][j], for the 0-based column j
ColumnCommit(vm, x, j) ==
    GSum([i \in 1 .. vm.rows |-> GMul(vm.m[i][j + 1], Pow(x, i - 1))], vm.rows)

\* sum over j of y^j * m[i][j], for the 0-based row i
RowCommit(vm, y, i) ==
    GSum([j \in 1 .. vm.cols |-> GMul(vm.m[i + 1][j], Pow(y, j - 1))], vm.cols)

\* sum over i, j of (x^i * y^j) * m[i][j]
PointCommit(vm, x, y) ==
    GSum([i \in 1 .. vm.rows |->
            GSum([j \in 1 .. vm.cols |->
                    GMul(vm.m[i][j], SMul(Pow(x, i - 1), Pow(y, j - 1)))], vm.cols)],
         vm.rows)

\* C6: verify_x(x, p) is true iff p.size() = cols and a_j * G is the sum over
\* i of x^i * m[i][j] for every column j; verify_y(y, p) is true iff
\* p.size() = rows and a_i * G is the sum over j of y^j * m[i][j] for every
\* row i.  So on from(B), verify_x(x, B.eval_x(x)) and verify_y(y, B.eval_y(y))
\* are true, and a polynomial of the wrong size yields false.
C6_ProjectionVerification ==
    /\ (pc = "returned" /\ call.op = "verify_x") =>
          /\ ret.ret = (/\ size(call.p) = vm1.cols
                        /\ \A j \in 0 .. (vm1.cols - 1) :
                              GMul(Generator, call.p[j + 1]) = ColumnCommit(vm1, call.x, j))
          /\ call.p = eval_x(bp1, call.x) => ret.ret
          /\ size(call.p) # vm1.cols => ~ret.ret
    /\ (pc = "returned" /\ call.op = "verify_y") =>
          /\ ret.ret = (/\ size(call.p) = vm1.rows
                        /\ \A i \in 0 .. (vm1.rows - 1) :
                              GMul(Generator, call.p[i + 1]) = RowCommit(vm1, call.y, i))
          /\ call.p = eval_y(bp1, call.y) => ret.ret
          /\ size(call.p) # vm1.rows => ~ret.ret

\* C6 witness: verify_x has accepted the projection at x = 2 of a 2 x 4
\* polynomial, a polynomial without a zero coefficient.
C6_Witness ==
    /\ pc = "returned" /\ call.op = "verify_x"
    /\ vm1.rows = 2 /\ vm1.cols = 4
    /\ call.x = 2
    /\ call.p = eval_x(bp1, 2)
    /\ \A k \in 1 .. 4 : call.p[k] # 0
    /\ ret.ret

\* verify_y has rejected a polynomial of the right size as well
C6_RejectionReached ==
    /\ pc = "returned" /\ call.op = "verify_y"
    /\ size(call.p) = vm1.rows /\ vm1.rows = 2
    /\ call.p[1] = eval_y(bp1, call.y)[1]
    /\ call.p[2] # eval_y(bp1, call.y)[2]
    /\ ~ret.ret

\* C7: for polynomials of the right size verify_x executes the identity
\* check of every column 0 .. cols - 1 exactly once and in order, and
\* verify_y that of every row, whichever coefficients match: any two
\* polynomials of one size give the same sequence of checks.  The only early
\* return is the size check, before any check.
C7_NoShortCircuit ==
    /\ (pc = "returned" /\ call.op = "verify_x") =>
          /\ size(call.p) = vm1.cols => ret.checked = [j \in 1 .. vm1.cols |-> j - 1]
          /\ size(call.p) # vm1.cols => ret.checked = <<>>
          /\ \A q \in UniPolys :
                size(q) = size(call.p) =>
                   verify_x(vm1, call.x, q).checked = ret.checked
    /\ (pc = "returned" /\ call.op = "verify_y") =>
          /\ size(call.p) = vm1.rows => ret.checked = [i \in 1 .. vm1.rows |-> i - 1]
          /\ size(call.p) # vm1.rows => ret.checked = <<>>
          /\ \A q \in UniPolys :
                size(q) = size(call.p) =>
                   verify_y(vm1, call.y, q).checked = ret.checked

\* C7 witness: verify_x has run on a polynomial of the right size whose
\* first coefficient fails and whose last one matches, and returned false.
C7_Witness ==
    /\ pc = "returned" /\ call.op = "verify_x"
    /\ vm1.cols = 3 /\ size(call.p) = 3
    /\ GMul(Generator, call.p[1]) # ColumnCommit(vm1, call.x, 0)
    /\ GMul(Generator, call.p[3]) = ColumnCommit(vm1, call.x, 2)
    /\ ~ret.ret

\* C8: verify(x, y, v) is true iff the sum over i, j of (x^i * y^j) * m[i][j]
\* is v * G; on from(B), verify(x, y, B.eval_x(x).eval(y)) is true.
C8_PointVerification ==
    (pc = "returned" /\ call.op = "verify") =>
        /\ ret = (PointCommit(vm1, call.x, call.y) = GMul(Generator, call.v))
        /\ call.v = eval(eval_x(bp1, call.x), call.y) => ret

\* C8 witness: verify has accepted the non-zero value of a 2 x 3 polynomial
\* at (2, 2).
C8_Witness ==
    /\ pc = "returned" /\ call.op = "verify"
    /\ vm1.rows = 2 /\ vm1.cols = 3
    /\ call.x = 2 /\ call.y = 2
    /\ call.v = eval(eval_x(bp1, 2), 2)
    /\ call.v # 0
    /\ ret

\* verify has rejected a value other than B(x, y) as well
C8_RejectionReached ==
    /\ pc = "returned" /\ call.op = "verify"
    /\ call.v # eval(eval_x(bp1, call.x), call.y)
    /\ ~ret

\* C9: on from(B), verification_vector_for_x(y) has rows entries, entry i
\* the sum over j of y^j * m[i][j], and is_from(B.eval_y(y)) holds of it;
\* verification_vector_for_y(x) has cols entries, entry j the sum over i of
\* x^i * m[i][j], and is_from(B.eval_x(x)) holds of it.
C9_VectorExtraction ==
    /\ (pc = "returned" /\ call.op = "verification_vector_for_x") =>
          /\ Len(ret) = vm1.rows
          /\ \A i \in 0 .. (vm1.rows - 1) : ret[i + 1] = RowCommit(vm1, call.y, i)
          /\ is_from(ret, eval_y(bp1, call.y))
    /\ (pc = "returned" /\ call.op = "verification_vector_for_y") =>
          /\ Len(ret) = vm1.cols
          /\ \A j \in 0 .. (vm1.cols - 1) : ret[j + 1] = ColumnCommit(vm1, call.x, j)
          /\ is_from(ret, eval_x(bp1, call.x))

\* C9 witness: the vector for x at y = 2 of a 2 x 4 matrix has been
\* extracted, with entries other than the identity.
C9_Witness ==
    /\ pc = "returned" /\ call.op = "verification_vector_for_x"
    /\ vm1.rows = 2 /\ vm1.cols = 4
    /\ call.y = 2
    /\ ret[1] # Identity /\ ret[2] # Identity

(***************************************************************************)
(* The shape of the matrices, checked under SpecSer: there matrices are    *)
(* built from polynomials, summed by + and +=, decoded by from_bytes, and  *)
(* the decoded ones are folded by += and + again.                          *)
(***************************************************************************)
\* rows >= 1, cols >= 1, m has rows rows and every row has cols elements
WellShaped(vm) ==
    /\ vm.rows >= 1 /\ vm.cols >= 1
    /\ Len(vm.m) = vm.rows
    /\ \A i \in 1 .. Len(vm.m) : Len(vm.m[i]) = vm.cols

\* C11: every matrix built from a bivariate polynomial, returned by a
\* successful from_bytes, or obtained from such matrices by + and += has
\* rows >= 1, cols >= 1, exactly rows rows and exactly cols elements in
\* every row.
C11_ShapeInvariant ==
    /\ WellShaped(vm1)
    /\ WellShaped(vm2)
    /\ WellShaped(acc)
    /\ sum # None => WellShaped(sum[1])
    /\ restored.val # None => WellShaped(restored.val[1])

\* C11 witness: a decoded matrix whose bytes were altered has been folded by
\* += into a smaller accumulator and the result added by + to a matrix with
\* more columns and fewer rows.
C11_Witness ==
    /\ pc = "aggregated"
    /\ call.op = "corrupt"
    /\ From(bp1).rows < restored.val[1].rows
    /\ vm2.cols > acc.cols /\ vm2.rows < acc.rows
    /\ sum[1].rows = acc.rows /\ sum[1].cols = vm2.cols

(***************************************************************************)
(* Aggregation of three dealers' matrices.  The accumulator starts as a    *)
(* copy of the first dealer's matrix and is only changed by +=; the sum is *)
(* only produced by +.  Every action is one + or one +=, on dealers'       *)
(* matrices and on partial aggregates, in any order and grouping; inacc    *)
(* and insum record which dealers each partial aggregate holds.            *)
(***************************************************************************)
Dealers == 1 .. 3

\* the polynomials of the dealers: the grids of tests::test_add and, for
\* the smallest and the largest degree on each axis, the polynomial with
\* only the highest coefficient
FoldPolys ==
    TestPolys \cup
    {set_coefficient(zero(dx, dy), dx, dy, 1) :
        <<dx, dy>> \in {0, MaxDeg} \X {0, MaxDeg}}

Dealer(k) == CASE k = 1 -> vm1 [] k = 2 -> vm2 [] k = 3 -> vm3

InitFold ==
    /\ pc = "dealt"
    /\ bp1 \in FoldPolys /\ bp2 \in FoldPolys /\ bp3 \in FoldPolys
    /\ vm1 = From(bp1) /\ vm2 = From(bp2) /\ vm3 = From(bp3)
    /\ acc = vm1 /\ inacc = {1}
    /\ sum = None /\ insum = {}
    /\ wire = NoBytes /\ bytes = NoBytes /\ restored = NotDecoded
    /\ call = NoCall /\ ret = 0 /\ folds = 0

\* what every fold step leaves alone
FoldFrame ==
    /\ pc' = "folding"
    /\ UNCHANGED <<bp1, bp2, bp3, vm1, vm2, vm3, wire, bytes, restored, ret, folds>>

\* acc += &vm_k
AccumulateDealer(k) ==
    /\ k \notin inacc
    /\ acc' = AddAssign(acc, Dealer(k))
    /\ inacc' = inacc \cup {k}
    /\ call' = [op |-> "acc += vm", k |-> k]
    /\ UNCHANGED <<sum, insum>>
    /\ FoldFrame

\* acc += &sum
AccumulateSum ==
    /\ sum # None
    /\ insum \cap inacc = {}
    /\ acc' = AddAssign(acc, sum[1])
    /\ inacc' = inacc \cup insum
    /\ call' = [op |-> "acc += sum", k |-> 0]
    /\ UNCHANGED <<sum, insum>>
    /\ FoldFrame

\* sum = &vm_k + &vm_l
AddDealers(k, l) ==
    /\ sum = None
    /\ k # l
    /\ sum' = Some(Add(Dealer(k), Dealer(l)))
    /\ insum' = {k, l}
    /\ call' = [op |-> "vm + vm", k |-> k]
    /\ UNCHANGED <<acc, inacc>>
    /\ FoldFrame

\* sum = &sum + &vm_k
AddSumDealer(k) ==
    /\ sum # None
    /\ k \notin insum
    /\ sum' = Some(Add(sum[1], Dealer(k)))
    /\ insum' = insum \cup {k}
    /\ call' = [op |-> "sum + vm", k |-> k]
    /\ UNCHANGED <<acc, inacc>>
    /\ FoldFrame

\* sum = &vm_k + &sum
AddDealerSum(k) ==
    /\ sum # None
    /\ k \notin insum
    /\ sum' = Some(Add(Dealer(k), sum[1]))
    /\ insum' = insum \cup {k}
    /\ call' = [op |-> "vm + sum", k |-> k]
    /\ UNCHANGED <<acc, inacc>>
    /\ FoldFrame

\* sum = &acc + &vm_k
AddAccDealer(k) ==
    /\ sum = None
    /\ k \notin inacc
    /\ sum' = Some(Add(acc, Dealer(k)))
    /\ insum' = inacc \cup {k}
    /\ call' = [op |-> "acc + vm", k |-> k]
    /\ UNCHANGED <<acc, inacc>>
    /\ FoldFrame

\* sum = &vm_k + &acc
AddDealerAcc(k) ==
    /\ sum = None
    /\ k \notin inacc
    /\ sum' = Some(Add(Dealer(k), acc))
    /\ insum' = inacc \cup {k}
    /\ call' = [op |-> "vm + acc", k |-> k]
    /\ UNCHANGED <<acc, inacc>>
    /\ FoldFrame

\* sum = &acc + &sum
AddAccSum ==
    /\ sum # None
    /\ insum \cap inacc = {}
    /\ sum' = Some(Add(acc, sum[1]))
    /\ insum' = inacc \cup insum
    /\ call' = [op |-> "acc + sum", k |-> 0]
    /\ UNCHANGED <<acc, inacc>>
    /\ FoldFrame

\* sum = &sum + &acc
AddSumAcc ==
    /\ sum # None
    /\ insum \cap inacc = {}
    /\ sum' = Some(Add(sum[1], acc))
    /\ insum' = inacc \cup insum
    /\ call' = [op |-> "sum + acc", k |-> 0]
    /\ UNCHANGED <<acc, inacc>>
    /\ FoldFrame

NextFold ==
    \/ \E k \in Dealers : AccumulateDealer(k)
    \/ AccumulateSum
    \/ \E k \in Dealers, l \in Dealers : AddDealers(k, l)
    \/ \E k \in Dealers : AddSumDealer(k)
    \/ \E k \in Dealers : AddDealerSum(k)
    \/ \E k \in Dealers : AddAccDealer(k)
    \/ \E k \in Dealers : AddDealerAcc(k)
    \/ AddAccSum
    \/ AddSumAcc

SpecFold == InitFold /\ [][NextFold]_vars

\* the aggregate of the dealers in S: as many rows and columns as the largest
\* of their matrices, every cell the group sum of the dealers' cells there
\* (the identity for a dealer whose grid does not reach the cell)
Aggregate(S) ==
    LET rows == CHOOSE r \in {Dealer(k).rows : k \in S} :
                    \A k \in S : Dealer(k).rows <= r
        cols == CHOOSE c \in {Dealer(k).cols : k \in S} :
                    \A k \in S : Dealer(k).cols <= c
        cell(k, i, j) == IF k \in S THEN CellOrIdentity(Dealer(k), i, j) ELSE Identity
    IN  [rows |-> rows, cols |-> cols,
         m |-> [i \in 1 .. rows |-> [j \in 1 .. cols |->
                  GAdd(GAdd(cell(1, i - 1, j - 1), cell(2, i - 1, j - 1)),
                       cell(3, i - 1, j - 1))]]]

\* C12: addition is commutative and associative for matrices of any,
\* possibly unequal, dimensions, and however the dealers' matrices are
\* folded (any order, any grouping, + and += in any mix) a partial aggregate
\* is the aggregate of the dealers it holds: same dimensions, same cells.
C12_OrderIndependent ==
    /\ Add(vm1, vm2) = Add(vm2, vm1)
    /\ Add(Add(vm1, vm2), vm3) = Add(vm1, Add(vm2, vm3))
    /\ acc = Aggregate(inacc)
    /\ sum # None => sum[1] = Aggregate(insum)

\* C12 witness: three dealers whose matrices differ pairwise in dimensions,
\* the last two added by + with the later dealer on the left, and that sum
\* folded by += into the first dealer's accumulator, which it outgrows.
C12_Witness ==
    /\ call.op = "acc += sum"
    /\ inacc = Dealers /\ insum = {2, 3}
    /\ sum[1] = Add(vm3, vm2)
    /\ vm1.rows > vm2.rows /\ vm1.cols < vm3.cols /\ vm2.cols > vm3.cols
    /\ acc.rows = vm1.rows /\ acc.cols = vm2.cols
    /\ \E i \in 1 .. acc.rows : \E j \in 1 .. acc.cols : acc.m[i][j] # Identity

====
